---- MODULE Spec2Model ----
(***************************************************************************)
(* A model of the smart-research-agent pipeline:                           *)
(*   tools/vecstore.py   in-memory chunk store and cosine retriever        *)
(*   tools/wikipedia.py  search / page-read adapters with transient retry  *)
(*   agents/planner.py   plan_queries, the sub-query templates              *)
(*   agents/researcher.py  source fetcher with topic-level fallback        *)
(*   agents/synthesizer.py brief synthesizer                               *)
(*   agents/quiz.py      three-tier quiz generator                         *)
(*   app_gradio.py       run_agent, the pipeline driver                    *)
(* Sequences are 1-based here; Python positions i are modelled as i + 1.   *)
(***************************************************************************)
EXTENDS Integers, Sequences, FiniteSets, TLC

VARIABLES
    MEM,        \* vecstore._MEM: topic_id -> bucket of four parallel lists
    written,    \* history: <<topic_id, text, metadata>> written by upsert_chunks
    call,       \* the last public call of tools/vecstore.py and its outcome
    rpc,        \* research_from_web: where the call stands
    rargs,      \* research_from_web: its arguments
    web,        \* what reading each page gives: "text", "empty" or "raise"
    qi,         \* research_from_web: position of the sub-query at hand
    urls,       \* research_from_web: the search result being walked
    ui,         \* research_from_web: position of the url at hand
    sources,    \* research_from_web: the list it returns
    flog,       \* history: the searches, reads, accepts and writes so far
    hop,        \* tools/wikipedia.py: the call in progress and its arguments
    hmode,      \* tools/wikipedia.py: the API mode _retry_get is asking
    hi,         \* _retry_get: requests sent so far in the current loop
    hlog,       \* history: every request sent, with the status that came back
    hret,       \* tools/wikipedia.py: what the call returned or raised
    synth,      \* the last synthesize_brief call and its outcome
    runpc,      \* run_agent: where the call stands
    runargs,    \* run_agent: its arguments
    runlog,     \* history: the pipeline stages run_agent has run, in order
    quiz,       \* the last make_quiz call and its outcome
    split,      \* _split: its arguments, loop position and windows so far
    plan        \* the plan_queries calls made so far and what each returned

storeVars == <<MEM, written, call>>
fetchVars == <<rpc, rargs, web, qi, urls, ui, sources, flog>>

httpVars == <<hop, hmode, hi, hlog, hret>>
runVars == <<runpc, runargs, runlog>>

utilVars == <<split, plan>>

vars == <<storeVars, fetchVars, httpVars, synth, runVars, quiz, utilVars>>

\* what the calls of one component leave alone
notStore == <<fetchVars, httpVars, synth, runVars, quiz, utilVars>>
notFetch == <<storeVars, httpVars, synth, runVars, quiz, utilVars>>
notHttp == <<storeVars, fetchVars, synth, runVars, quiz, utilVars>>
notSynth == <<written, call, fetchVars, httpVars, runVars, quiz, utilVars>>
notRun == <<written, call, fetchVars, httpVars, synth, quiz, utilVars>>
notQuiz == <<storeVars, fetchVars, httpVars, synth, runVars, utilVars>>
notSplit == <<storeVars, fetchVars, httpVars, synth, runVars, quiz, plan>>
notPlan == <<storeVars, fetchVars, httpVars, synth, runVars, quiz, split>>

-----------------------------------------------------------------------------
(* Bounds of the model                                                     *)

MaxChunks == 3      \* chunks held by the whole store
BatchSizes == {0, 1, 2}     \* texts in one upsert_chunks call
MaxK == 2           \* largest k asked of rag_query
MaxPerQuery == 2    \* largest per_query given to research_from_web
MaxSubqueries == 2  \* sub-queries given to research_from_web

-----------------------------------------------------------------------------
(* tools/vecstore.py                                                       *)

Topics == {"A", "B"}

\* The texts the hosted embedding model is asked about, and the vector it
\* answers for each (one fixed-length vector per text).
Texts == {"t0", "t1", "t2"}

Embedding(t) ==
    CASE t = "t0" -> <<0, 0>>
      [] t = "t1" -> <<1, 0>>
      [] t = "t2" -> <<1, 1>>

\* metadata dicts of a chunk; id = "" stands for a dict without an "id" key
Metas == { [url |-> "u1", id |-> "u1-0"], [url |-> "u2", id |-> ""] }

\* the (text, metadata) pairs callers hand to upsert_chunks
ChunkInputs ==
    { <<"t0", [url |-> "u1", id |-> "u1-0"]>>,
      <<"t1", [url |-> "u2", id |-> ""]>>,
      <<"t2", [url |-> "u2", id |-> ""]>> }

retries == 3

\* embed(text): _embed_once is tried `retries` times; `fails` is the number of
\* leading attempts on which the embedding service raised.
embed(t, fails) ==
    IF fails < retries THEN Embedding(t) ELSE "raise"

RECURSIVE SumProd(_, _, _)
SumProd(a, b, n) ==
    IF n = 0 THEN 0 ELSE a[n] * b[n] + SumProd(a, b, n - 1)

Min(x, y) == IF x < y THEN x ELSE y
Max(x, y) == IF x > y THEN x ELSE y

Sign(x) == IF x > 0 THEN 1 ELSE IF x < 0 THEN -1 ELSE 0

\* _cosine(a, b) = s / (sqrt(na2) * sqrt(nb2)), and 0.0 for an empty or a
\* zero-norm vector.  The score is kept exactly, as the signed square of the
\* cosine, a fraction <<numerator, denominator>> with denominator > 0; the
\* signed square orders scores as the cosine does.
_cosine(a, b) ==
    IF a = <<>> \/ b = <<>> THEN <<0, 1>>
    ELSE LET n == Min(Len(a), Len(b))
             s == SumProd(a, b, n)
             na2 == SumProd(a, a, Len(a))
             nb2 == SumProd(b, b, Len(b))
         IN  IF na2 = 0 \/ nb2 = 0 THEN <<0, 1>>
             ELSE <<Sign(s) * s * s, na2 * nb2>>

ScoreLess(x, y) == x[1] * y[2] < y[1] * x[2]
ScoreEq(x, y) == x[1] * y[2] = y[1] * x[2]

EmptyBucket == [ids |-> <<>>, embs |-> <<>>, texts |-> <<>>, metas |-> <<>>]

\* get_store(topic_id): _MEM.setdefault(topic_id, {...}); returns the store
\* after the call.  The collection object reads bucket _MEM[topic_id].
get_store(mem, topic_id) ==
    IF topic_id \in DOMAIN mem THEN mem
    ELSE [t \in (DOMAIN mem) \cup {topic_id} |->
            IF t = topic_id THEN EmptyBucket ELSE mem[t]]

\* a store whose collections all read one shared bucket
BucketOfShared(mem, topic_id) == mem[CHOOSE t \in DOMAIN mem : TRUE]

\* _MemCollection.__init__: self._bucket = _MEM[topic_id]
BucketOf(mem, topic_id) == mem[topic_id]

\* a stable descending sort: equal scores keep insertion order
PairGreaterStable(p, q) ==
    \/ ScoreLess(q[1], p[1])
    \/ ScoreEq(p[1], q[1]) /\ p[2] < q[2]

\* Python tuple order on (score, idx) pairs
PairGreater(p, q) ==
    \/ ScoreLess(q[1], p[1])
    \/ ScoreEq(p[1], q[1]) /\ p[2] > q[2]

\* sims.sort(reverse=True) on the list of (score, idx) tuples
SortReverse(sims) ==
    LET n == Len(sims)
        Rank(i) == 1 + Cardinality({j \in 1..n : PairGreater(sims[j], sims[i])})
    IN  [r \in 1..n |-> sims[CHOOSE i \in 1..n : Rank(i) = r]]

\* Python slice s[:k]
SlicePrefix(s, k) ==
    LET n == IF k >= 0 THEN Min(k, Len(s)) ELSE Max(Len(s) + k, 0)
    IN  SubSeq(s, 1, n)

\* _MemCollection.query: the local list `take` of (score, idx) pairs
MemQueryTake(bucket, q, n_results) ==
    LET sims == [i \in 1..Len(bucket.embs) |-> <<_cosine(q, bucket.embs[i]), i>>]
    IN  SlicePrefix(SortReverse(sims), n_results)

\* rag_query's list of {text, metadata} built from the query result
RagItems(bucket, take) ==
    [j \in 1..Len(take) |->
        [text |-> bucket.texts[take[j][2]], metadata |-> bucket.metas[take[j][2]]]]

TotalChunks(mem) ==
    LET RECURSIVE Sum(_)
        Sum(S) == IF S = {} THEN 0
                  ELSE LET t == CHOOSE x \in S : TRUE
                       IN  Len(mem[t].texts) + Sum(S \ {t})
    IN  Sum(DOMAIN mem)

\* ids of upsert_chunks: m.get("id") or str(uuid.uuid4()).  A uuid4 is a fresh
\* value; it is modelled by the place the chunk takes in the store, which no
\* other stored chunk has.
ChunkIds(topic_id, metadatas, base) ==
    [j \in 1..Len(metadatas) |->
        IF metadatas[j].id # "" THEN metadatas[j].id
        ELSE <<"uuid4", topic_id, base + j>>]

NoCall == [op |-> "none"]

\* a writer that stores each chunk as soon as it is embedded: the chunks in
\* front of the failing one are in the store when the call raises
UpsertChunksPartial(topic_id, texts, metadatas, fails) ==
    LET mem1 == get_store(MEM, topic_id)
        b == BucketOf(mem1, topic_id)
        ids == ChunkIds(topic_id, metadatas, Len(b.ids))
        embs == [j \in 1..Len(texts) |-> embed(texts[j], fails[j])]
        bad == { j \in 1..Len(texts) : embs[j] = "raise" }
        n == IF bad = {} THEN Len(texts)
             ELSE (CHOOSE j \in bad : \A h \in bad : j <= h) - 1
    IN  /\ MEM' = [mem1 EXCEPT ![topic_id] =
                      [ids |-> b.ids \o SubSeq(ids, 1, n),
                       texts |-> b.texts \o SubSeq(texts, 1, n),
                       metas |-> b.metas \o SubSeq(metadatas, 1, n),
                       embs |-> b.embs \o SubSeq(embs, 1, n)]]
        /\ written' = written \cup
              { <<topic_id, texts[j], metadatas[j]>> : j \in 1..n }
        /\ call' = [op |-> "upsert", topic |-> topic_id,
                    result |-> IF bad = {} THEN "None" ELSE "raise"]

\* upsert_chunks(topic_id, texts, metadatas) with one metadata per text
upsert_chunks(topic_id, texts, metadatas, fails) ==
    IF texts = <<>>
    THEN /\ call' = [op |-> "upsert", topic |-> topic_id, result |-> "None"]
         /\ UNCHANGED <<MEM, written>>
    ELSE LET mem1 == get_store(MEM, topic_id)
             b == BucketOf(mem1, topic_id)
             ids == ChunkIds(topic_id, metadatas, Len(b.ids))
             embs == [j \in 1..Len(texts) |-> embed(texts[j], fails[j])]
         IN  IF \E j \in 1..Len(texts) : embs[j] = "raise"
             THEN /\ MEM' = mem1
                  /\ call' = [op |-> "upsert", topic |-> topic_id, result |-> "raise"]
                  /\ UNCHANGED written
             ELSE /\ MEM' = [mem1 EXCEPT ![topic_id] =
                                [ids |-> b.ids \o ids,
                                 texts |-> b.texts \o texts,
                                 metas |-> b.metas \o metadatas,
                                 embs |-> b.embs \o embs]]
                  /\ written' = written \cup
                        { <<topic_id, texts[j], metadatas[j]>> : j \in 1..Len(texts) }
                  /\ call' = [op |-> "upsert", topic |-> topic_id, result |-> "None"]

\* rag_query(topic_id, query, k) on store mem: what it returns, with the
\* query's local list `take`; ok = FALSE when embedding the query raised
RagQueryResult(mem, topic_id, query, k, fails) ==
    LET mem1 == get_store(mem, topic_id)
        q == embed(query, fails)
        b == BucketOf(mem1, topic_id)
    IN  IF q = "raise"
        THEN [ok |-> FALSE, take |-> <<>>, out |-> <<>>]
        ELSE LET take == MemQueryTake(b, q, k)
             IN  [ok |-> TRUE, take |-> take, out |-> RagItems(b, take)]

\* rag_query(topic_id, query, k)
rag_query(topic_id, query, k, fails) ==
    LET r == RagQueryResult(MEM, topic_id, query, k, fails)
    IN  /\ MEM' = get_store(MEM, topic_id)
        /\ UNCHANGED written
        /\ call' = [op |-> "rag_query", topic |-> topic_id, k |-> k,
                    query |-> query, embedded |-> r.ok,
                    stored |-> Len(MEM'[topic_id].texts),
                    result |-> IF r.ok THEN "ok" ELSE "raise",
                    take |-> r.take, out |-> r.out]

StoreInit ==
    /\ MEM = << >>
    /\ written = {}
    /\ call = NoCall

FetchIdle ==
    /\ rpc = "idle"
    /\ rargs = [subqueries |-> <<>>, per_query |-> 1, topic |-> ""]
    /\ web = << >>
    /\ qi = 0
    /\ urls = <<>>
    /\ ui = 0
    /\ sources = <<>>
    /\ flog = <<>>

OthersIdle ==
    /\ synth = [op |-> "none"]
    /\ runpc = "idle"
    /\ runargs = [topic |-> "", per_query |-> 1]
    /\ runlog = <<>>
    /\ quiz = [op |-> "none"]

SplitIdle == split = [pc |-> "none"]

PlanIdle == plan = <<>>

UtilIdle == SplitIdle /\ PlanIdle

HttpIdle ==
    /\ hop = [op |-> "none", limit |-> 0]
    /\ hmode = "none"
    /\ hi = 0
    /\ hlog = <<>>
    /\ hret = [kind |-> "none", urls |-> <<>>, text |-> ""]

UpsertChunks ==
    \E topic_id \in Topics, n \in BatchSizes :
        /\ UNCHANGED notStore
        /\ TotalChunks(MEM) + n <= MaxChunks
        /\ \E batch \in [1..n -> ChunkInputs], failAt \in 0..n :
                upsert_chunks(topic_id,
                              [j \in 1..n |-> batch[j][1]],
                              [j \in 1..n |-> batch[j][2]],
                              [j \in 1..n |-> IF j = failAt THEN retries ELSE 0])

RagQuery ==
    \E topic_id \in Topics, query \in Texts, k \in 0..MaxK, fails \in {0, retries} :
        /\ UNCHANGED notStore
        /\ rag_query(topic_id, query, k, fails)

StoreNext == UpsertChunks \/ RagQuery

InitStore == StoreInit /\ FetchIdle /\ HttpIdle /\ OthersIdle /\ UtilIdle

SpecStore == InitStore /\ [][StoreNext]_vars

-----------------------------------------------------------------------------
(* Claims about the retriever (SpecStore)                                  *)

Returned == call.op = "rag_query" /\ call.result = "ok"

\* the score the returned entry j was ranked with, recomputed from the store
StoredScore(i) == _cosine(Embedding(call.query), MEM[call.topic].embs[i])

TakeWellFormed ==
    /\ Len(call.out) = Len(call.take)
    /\ \A j \in 1..Len(call.take) :
          /\ call.take[j][2] \in 1..call.stored
          /\ call.take[j][1] = StoredScore(call.take[j][2])
          /\ call.out[j].text = MEM[call.topic].texts[call.take[j][2]]
          /\ call.out[j].metadata = MEM[call.topic].metas[call.take[j][2]]

\* no chunk left out of the result outranks a returned one
TopOfBucket ==
    \A i \in 1..call.stored :
        (\A j \in 1..Len(call.take) : call.take[j][2] # i) =>
            \A j \in 1..Len(call.take) :
                ~ ScoreLess(call.take[j][1], StoredScore(i))

\* C1 as stated: the in-memory query returns the topic's chunks by descending
\* cosine score, and two chunks of equal score appear in insertion order, the
\* earlier-inserted chunk first.
C1_TiesInInsertionOrder ==
    Returned =>
        /\ TakeWellFormed
        /\ TopOfBucket
        /\ \A j \in 1..Len(call.take), h \in 1..Len(call.take) :
              j < h =>
                \/ ScoreLess(call.take[h][1], call.take[j][1])
                \/ /\ ScoreEq(call.take[h][1], call.take[j][1])
                   /\ call.take[j][2] < call.take[h][2]

\* C1 amended: the in-memory query returns the topic's chunks by descending
\* cosine score, and two chunks of equal score appear in reverse insertion
\* order, the later-inserted chunk first.
C1_TiesInReverseInsertionOrder ==
    Returned =>
        /\ TakeWellFormed
        /\ TopOfBucket
        /\ \A j \in 1..Len(call.take), h \in 1..Len(call.take) :
              j < h =>
                \/ ScoreLess(call.take[h][1], call.take[j][1])
                \/ /\ ScoreEq(call.take[h][1], call.take[j][1])
                   /\ call.take[j][2] > call.take[h][2]

\* a query returned two chunks of equal score and left out a lower-scored one
C1_Witness ==
    /\ Returned
    /\ Len(call.take) = 2
    /\ ScoreEq(call.take[1][1], call.take[2][1])
    /\ call.stored = 3
    /\ \E i \in 1..call.stored : ScoreLess(StoredScore(i), call.take[2][1])

\* C2: for a topic holding m chunks every rag_query call returns exactly
\* min(k, m) items, no stored position twice; and for m = 0 it returns the
\* empty sequence, never an error.
C2_ResultSize ==
    call.op = "rag_query" =>
        /\ call.result = "ok"
        /\ Len(call.out) = Min(call.k, call.stored)
        /\ Len(call.take) = Len(call.out)
        /\ \A j \in 1..Len(call.take), h \in 1..Len(call.take) :
              j # h => call.take[j][2] # call.take[h][2]
        /\ call.stored = 0 => call.out = <<>>

\* C3: rag_query for topic T returns only chunks written by an upsert_chunks
\* call with topic id T.
C3_TopicIsolation ==
    Returned =>
        \A j \in 1..Len(call.out) :
            <<call.topic, call.out[j].text, call.out[j].metadata>> \in written

\* a query returned chunks of its topic while another topic holds a chunk
\* that was never written under the queried topic
C3_Witness ==
    /\ Returned
    /\ call.out # <<>>
    /\ \E t \in DOMAIN MEM :
          /\ t # call.topic
          /\ \E i \in 1..Len(MEM[t].texts) :
                <<call.topic, MEM[t].texts[i], MEM[t].metas[i]>> \notin written

\* list a is the front of list b
IsPrefix(a, b) == Len(a) <= Len(b) /\ SubSeq(b, 1, Len(a)) = a

BucketFields == {"ids", "texts", "metas", "embs"}

\* the four lists of every topic are equally long
ListsAligned ==
    \A t \in DOMAIN MEM : \A f \in BucketFields : Len(MEM[t][f]) = Len(MEM[t].texts)

\* a step leaves what was stored at its place, and an upsert_chunks call
\* that raises leaves the lists of every topic as they were
AppendOnlyStep ==
    /\ \A t \in DOMAIN MEM :
          /\ t \in DOMAIN MEM'
          /\ \A f \in BucketFields : IsPrefix(MEM[t][f], MEM'[t][f])
    /\ (call'.op = "upsert" /\ call'.result = "raise")
          => \A t \in DOMAIN MEM' :
                MEM'[t] = IF t \in DOMAIN MEM THEN MEM[t] ELSE EmptyBucket

\* C16: after any sequence of upsert_chunks calls with as many metadatas as
\* texts, the ids, texts, metas and embs lists of each topic are equally
\* long and stored entries keep their position and content; a call in which
\* embedding a chunk fails on all `retries` attempts raises and leaves the
\* four lists unchanged.
C16_AllOrNothingAppend == []ListsAligned /\ [][AppendOnlyStep]_vars

\* an upsert_chunks call raised on a topic that already held chunks
C16_Witness ==
    /\ call.op = "upsert"
    /\ call.result = "raise"
    /\ call.topic \in DOMAIN MEM
    /\ Len(MEM[call.topic].texts) >= 1

-----------------------------------------------------------------------------
(* tools/wikipedia.py                                                      *)

attempts == 3

\* a retry set that takes in the server error 500
TransientWide == {429, 500, 502, 503}

Transient == {429, 502, 503}

\* statuses for which r.raise_for_status() raises; 0 stands for requests.get
\* itself raising (timeout, connection error), which leaves _retry_get the
\* same way
ErrorStatus == {0, 404, 500}

Titles == {"P1", "P2"}

\* the title lists a search answers with, at most `limit` of them
TitleLists(limit) ==
    { t \in {<<>>, <<"P1">>, <<"P2">>, <<"P1", "P2">>, <<"P2", "P1">>} :
        Len(t) <= limit }

\* f"https://en.wikipedia.org/wiki/{t.replace(' ', '_')}"
WikiUrl(t) == <<"https://en.wikipedia.org/wiki/", t>>

UrlsOf(titles) == [j \in 1..Len(titles) |-> WikiUrl(titles[j])]

\* url.split("/wiki/")[-1].replace("_", " ")
TitleOf(url) == url[2]

Pending == [kind |-> "pending", urls |-> <<>>, text |-> ""]
Raised == [kind |-> "raise", urls |-> <<>>, text |-> ""]
ReturnUrls(u) == [kind |-> "urls", urls |-> u, text |-> ""]
ReturnText(t) == [kind |-> "text", urls |-> <<>>, text |-> t]

Sent(mode, status, n) == [mode |-> mode, status |-> status, titles |-> n]

\* search_wikipedia / read_wikipedia_page going on after _retry_get gave
\* back r: the response's titles (or extract), or None
AfterRetryGet(isNone, titles, extract) ==
    CASE hmode = "search" ->
            IF ~isNone /\ titles # <<>>
            THEN /\ hret' = ReturnUrls(UrlsOf(titles))
                 /\ UNCHANGED hmode
                 /\ hi' = 0
            ELSE /\ hmode' = "opensearch"
                 /\ hi' = 0
                 /\ UNCHANGED hret
      [] hmode = "opensearch" ->
            /\ hret' = IF ~isNone /\ titles # <<>>
                       THEN ReturnUrls(UrlsOf(titles))
                       ELSE ReturnUrls(<<>>)
            /\ UNCHANGED hmode
            /\ hi' = 0
      [] hmode = "extracts" ->
            /\ hret' = IF isNone THEN ReturnText("") ELSE ReturnText(extract)
            /\ UNCHANGED hmode
            /\ hi' = 0

Requesting == hop.op # "none" /\ hret.kind = "pending" /\ hi < attempts

\* a caller enters search_wikipedia(query, limit) or read_wikipedia_page(url)
HttpCall ==
    /\ hop.op = "none"
    /\ \E op \in {"search", "read"}, limit \in 1..Max(2, MaxPerQuery) :
          /\ hop' = [op |-> op, limit |-> limit]
          /\ hmode' = IF op = "search" THEN "search" ELSE "extracts"
    /\ hi' = 0
    /\ hlog' = <<>>
    /\ hret' = Pending
    /\ UNCHANGED notHttp

\* _retry_get: a request comes back 429, 502 or 503; sleep and continue, and
\* return None after the last attempt
HttpTransient ==
    /\ Requesting
    /\ \E status \in Transient :
          /\ hlog' = Append(hlog, Sent(hmode, status, 0))
          /\ IF hi + 1 < attempts
             THEN /\ hi' = hi + 1
                  /\ UNCHANGED <<hmode, hret>>
             ELSE AfterRetryGet(TRUE, <<>>, "")
    /\ UNCHANGED <<hop, notHttp>>

\* _retry_get: requests.get raises, or raise_for_status raises on the status
HttpError ==
    /\ Requesting
    /\ \E status \in ErrorStatus :
          hlog' = Append(hlog, Sent(hmode, status, 0))
    /\ hret' = Raised
    /\ UNCHANGED <<hop, hmode, hi, notHttp>>

\* _retry_get returns the response; the caller reads its titles or extract
HttpOk ==
    /\ Requesting
    /\ \E titles \in TitleLists(hop.limit), extract \in {"", "page text"} :
          /\ hmode = "extracts" => titles = <<>>
          /\ hmode # "extracts" => extract = ""
          /\ hlog' = Append(hlog, Sent(hmode, 200, Len(titles)))
          /\ AfterRetryGet(FALSE, titles, extract)
    /\ UNCHANGED <<hop, notHttp>>

HttpNext == HttpCall \/ HttpTransient \/ HttpError \/ HttpOk

InitSearch == StoreInit /\ FetchIdle /\ HttpIdle /\ OthersIdle /\ UtilIdle

SpecSearch == InitSearch /\ [][HttpNext]_vars

-----------------------------------------------------------------------------
(* Claims about search_wikipedia (SpecSearch)                              *)

SearchEnded == hop.op = "search" /\ hret.kind \in {"urls", "raise"}

PrimaryGaveTitles ==
    \E j \in 1..Len(hlog) :
        hlog[j].mode = "search" /\ hlog[j].status = 200 /\ hlog[j].titles > 0

SecondaryQueried == \E j \in 1..Len(hlog) : hlog[j].mode = "opensearch"

\* C6: search_wikipedia queries the opensearch mode whenever the primary
\* search came back empty or failed (retries exhausted, or a non-transient
\* HTTP error), and never when the primary returned at least one title.
C6_SecondaryOnEmptyOrFailingPrimary ==
    SearchEnded =>
        /\ ~ PrimaryGaveTitles => SecondaryQueried
        /\ PrimaryGaveTitles => ~ SecondaryQueried

\* the requests one _retry_get call sent: those of one API mode
Requests(mode) == { j \in 1..Len(hlog) : hlog[j].mode = mode }

\* the _retry_get call of this mode has returned or raised
RetryGetOver(mode) ==
    /\ Requests(mode) # {}
    /\ hret.kind # "pending" \/ hmode # mode

\* C15: _retry_get sends at most `attempts` (3) requests; another request
\* follows only a 429, 502 or 503; the first response with any other status
\* ends the call, returned if it is a success and raised, without a retry, if
\* it is an error; None comes back exactly when all 3 attempts were transient;
\* and read_wikipedia_page maps None to the empty text.
C15_BoundedTransientRetry ==
    /\ \A mode \in {"search", "opensearch", "extracts"} :
          /\ Cardinality(Requests(mode)) <= 3
          /\ (RetryGetOver(mode)
                /\ \A j \in Requests(mode) : hlog[j].status \in {429, 502, 503})
                => Cardinality(Requests(mode)) = 3
    /\ \A j \in 1..(Len(hlog) - 1) :
          hlog[j + 1].mode = hlog[j].mode => hlog[j].status \in {429, 502, 503}
    /\ \A j \in 1..Len(hlog) :
          /\ hlog[j].status \in {0, 404, 500} => j = Len(hlog) /\ hret = Raised
          /\ (hlog[j].status = 200 /\ j = Len(hlog))
                => hret # Raised /\ RetryGetOver(hlog[j].mode)
    /\ (hop.op = "read" /\ Len(hlog) = 3 /\ hlog[3].status \in {429, 502, 503})
          => hret = ReturnText("")

\* read_wikipedia_page got None after three transient answers
C15_Witness ==
    /\ hop.op = "read"
    /\ Len(hlog) = 3
    /\ \A j \in 1..3 : hlog[j].status \in {429, 502, 503}
    /\ hret = ReturnText("")

-----------------------------------------------------------------------------
(* agents/researcher.py                                                    *)

\* what search_wikipedia hands research_from_web: a url list, or an exception
SearchOutcomes(limit) ==
    { [ok |-> TRUE, urls |-> UrlsOf(t)] : t \in TitleLists(limit) }
        \cup { [ok |-> FALSE, urls |-> <<>>] }

\* the name upsert_chunks is not bound in agents/researcher.py (line 2 imports
\* upsert_chunks_simple, which tools/vecstore.py does not define), so the call
\* of line 23 raises as the source stands; bound to a store writer it writes
\* the chunks, or raises when embedding fails.  Both outcomes are modelled.
IngestWriteOutcomes == {"ok", "raise"}

\* urlparse(url).netloc
Domain(url) == "en.wikipedia.org"

\* read_wikipedia_page(url) as research_from_web sees it
PageText(url) == IF web[TitleOf(url)] = "text" THEN <<"text of", TitleOf(url)>> ELSE <<>>

Event(ev, phase, q, limit, ok, us, url) ==
    [ev |-> ev, phase |-> phase, q |-> q, limit |-> limit, ok |-> ok,
     urls |-> us, url |-> url]

SearchEvent(phase, q, limit, o) == Event("search", phase, q, limit, o.ok, o.urls, <<>>)
ReadEvent(phase, url, ok) == Event("read", phase, "", 0, ok, <<>>, url)
AcceptEvent(phase, url) == Event("accept", phase, "", 0, TRUE, <<>>, url)
WriteEvent(phase, url, ok) == Event("write", phase, "", 0, ok, <<>>, url)

\* _ingest up to the store write: the Source is appended first
Source(url) == [url |-> url, domain |-> Domain(url), text |-> PageText(url)]

\* the sub-query loop moves on: next url, else next sub-query, else line 43
SweepAdvance(us, u) ==
    IF u < Len(us)
    THEN /\ ui' = u + 1
         /\ urls' = us
         /\ rpc' = "sweep_read"
         /\ UNCHANGED qi
    ELSE /\ ui' = 0
         /\ urls' = <<>>
         /\ qi' = qi + 1
         /\ rpc' = IF qi + 1 <= Len(rargs.subqueries) THEN "sweep_search" ELSE "after_sweep"

ResearchCall ==
    /\ rpc = "idle"
    /\ \E n \in 0..MaxSubqueries, per_query \in 1..MaxPerQuery, topic \in {"", "T"} :
          /\ rargs' = [subqueries |-> [j \in 1..n |-> <<"q", j>>],
                       per_query |-> per_query, topic |-> topic]
          /\ rpc' = IF n > 0 THEN "sweep_search" ELSE "after_sweep"
          /\ qi' = 1
    /\ web' \in [Titles -> {"text", "empty", "raise"}]
    /\ urls' = <<>>
    /\ ui' = 0
    /\ sources' = <<>>
    /\ flog' = <<>>
    /\ UNCHANGED <<notFetch>>

\* lines 29-33: search one sub-query; an exception leaves urls = []
SweepSearch ==
    /\ rpc = "sweep_search"
    /\ \E o \in SearchOutcomes(rargs.per_query) :
          /\ flog' = Append(flog, SearchEvent("sweep", rargs.subqueries[qi],
                                               rargs.per_query, o))
          /\ SweepAdvance(o.urls, 0)
    /\ UNCHANGED <<rargs, web, sources, notFetch>>

\* lines 34-40: read one url of the sub-query and ingest it; an exception is
\* caught for this url alone
SweepRead ==
    /\ rpc = "sweep_read"
    /\ LET url == urls[ui]
           how == web[TitleOf(url)]
       IN  \/ /\ how = "raise"
              /\ flog' = Append(flog, ReadEvent("sweep", url, FALSE))
              /\ UNCHANGED sources
           \/ /\ how = "empty"
              /\ flog' = Append(flog, ReadEvent("sweep", url, TRUE))
              /\ UNCHANGED sources
           \/ /\ how = "text"
              /\ sources' = Append(sources, Source(url))
              /\ \E w \in IngestWriteOutcomes :
                    flog' = flog \o <<ReadEvent("sweep", url, TRUE),
                                      AcceptEvent("sweep", url),
                                      WriteEvent("sweep", url, w = "ok")>>
    /\ SweepAdvance(urls, ui)
    /\ UNCHANGED <<rargs, web, notFetch>>

FallbackLimit == Max(2, rargs.per_query)

\* lines 43-45: nothing found and a topic given: search the raw topic; an
\* exception ends the fallback
FallbackSearch ==
    /\ rpc = "after_sweep"
    /\ sources = <<>> /\ rargs.topic # ""
    /\ \E o \in SearchOutcomes(FallbackLimit) :
          /\ flog' = Append(flog, SearchEvent("fallback", rargs.topic, FallbackLimit, o))
          /\ urls' = o.urls
          /\ ui' = IF o.urls # <<>> THEN 1 ELSE 0
          /\ rpc' = IF o.urls # <<>> THEN "fallback_read" ELSE "done"
    /\ UNCHANGED <<rargs, web, qi, sources, notFetch>>

\* lines 46-51: read one url of the fallback search and ingest it; an
\* exception leaves the loop, to the handler of line 50
FallbackRead ==
    /\ rpc = "fallback_read"
    /\ LET url == urls[ui]
           how == web[TitleOf(url)]
           next == IF ui < Len(urls) THEN "fallback_read" ELSE "done"
       IN  \/ /\ how = "raise"
              /\ flog' = Append(flog, ReadEvent("fallback", url, FALSE))
              /\ rpc' = "done"
              /\ UNCHANGED <<sources, ui>>
           \/ /\ how = "empty"
              /\ flog' = Append(flog, ReadEvent("fallback", url, TRUE))
              /\ rpc' = next
              /\ ui' = ui + 1
              /\ UNCHANGED sources
           \/ /\ how = "text"
              /\ sources' = Append(sources, Source(url))
              /\ \E w \in IngestWriteOutcomes :
                    /\ flog' = flog \o <<ReadEvent("fallback", url, TRUE),
                                         AcceptEvent("fallback", url),
                                         WriteEvent("fallback", url, w = "ok")>>
                    /\ rpc' = IF w = "ok" THEN next ELSE "done"
                    /\ ui' = IF w = "ok" THEN ui + 1 ELSE ui
    /\ UNCHANGED <<rargs, web, qi, urls, notFetch>>

\* lines 43, 53: sources found, or no topic: return sources
ResearchReturn ==
    /\ rpc = "after_sweep"
    /\ ~ (sources = <<>> /\ rargs.topic # "")
    /\ rpc' = "done"
    /\ UNCHANGED <<rargs, web, qi, urls, ui, sources, flog, notFetch>>

FetchNext ==
    ResearchCall \/ SweepSearch \/ SweepRead \/ FallbackSearch \/ FallbackRead
        \/ ResearchReturn

InitFetch == StoreInit /\ FetchIdle /\ HttpIdle /\ OthersIdle /\ UtilIdle

SpecFetch == InitFetch /\ [][FetchNext]_vars

-----------------------------------------------------------------------------
(* Claims about research_from_web (SpecFetch)                              *)

ResearchDone == rpc = "done"

Events(ev, phase) ==
    { j \in 1..Len(flog) : flog[j].ev = ev /\ flog[j].phase = phase }

RECURSIVE UrlsFound(_)
UrlsFound(S) ==
    IF S = {} THEN 0
    ELSE LET j == CHOOSE x \in S : TRUE
         IN  Len(flog[j].urls) + UrlsFound(S \ {j})

IsText(url) == web[TitleOf(url)] = "text"

\* C4: research_from_web issues the raw-topic search if and only if the
\* sub-query sweep accepted no Source and a topic was given, exactly once and
\* with limit max(2, per_query); and when the sweep found nothing and the
\* fallback search finds pages with non-empty text, the returned Sources are
\* exactly those of the pages the fallback found.
C4_FallbackSearchAndSources ==
    ResearchDone =>
        /\ Cardinality(Events("search", "fallback")) =
              IF Events("accept", "sweep") = {} /\ rargs.topic # "" THEN 1 ELSE 0
        /\ \A j \in Events("search", "fallback") :
              /\ flog[j].q = rargs.topic
              /\ flog[j].limit = Max(2, rargs.per_query)
              /\ (flog[j].ok /\ \A i \in 1..Len(flog[j].urls) : IsText(flog[j].urls[i]))
                    => sources = [i \in 1..Len(flog[j].urls) |-> Source(flog[j].urls[i])]

\* C5: a search, read or ingest failure is caught at its url or sub-query:
\* research_from_web returns, every sub-query has been searched and every url
\* a search returned has been read, those of the fallback search included.
C5_FailureIsolation ==
    ResearchDone =>
        /\ Cardinality(Events("search", "sweep")) = Len(rargs.subqueries)
        /\ Cardinality(Events("read", "sweep")) = UrlsFound(Events("search", "sweep"))
        /\ Cardinality(Events("read", "fallback")) = UrlsFound(Events("search", "fallback"))

\* the store write of the Source accepted at flog[j] succeeded, before flog[h]
WrittenBefore(j, h) ==
    \E x \in (j + 1)..(h - 1) :
        flog[x].ev = "write" /\ flog[x].url = flog[j].url /\ flog[x].ok

\* C12: the chunks of every accepted Source are written to the store before
\* the next page is read, and a Source is in the returned list only if its
\* chunks were written to the store.
C12_StreamingIngestion ==
    /\ \A j \in 1..Len(flog), h \in 1..Len(flog) :
          (flog[j].ev = "accept" /\ flog[h].ev = "read" /\ j < h) => WrittenBefore(j, h)
    /\ ResearchDone =>
          \A i \in 1..Len(sources) :
              \E x \in 1..Len(flog) :
                  flog[x].ev = "write" /\ flog[x].url = sources[i].url /\ flog[x].ok

-----------------------------------------------------------------------------
(* agents/synthesizer.py                                                   *)

MaxStored == 16     \* chunks of the topic the synthesizer reads

SYNTH_K == 15

\* a store upsert_chunks has filled with n chunks under topic "A"
SynthStore(n) ==
    LET T == <<"t1", "t0", "t2">>
        texts == [j \in 1..n |-> T[(j % 3) + 1]]
        metas == [j \in 1..n |->
                    IF j % 2 = 0 THEN [url |-> "u1", id |-> "u1-0"]
                    ELSE [url |-> "u2", id |-> ""]]
    IN  [t \in {"A"} |->
            [ids |-> ChunkIds("A", metas, 0), texts |-> texts, metas |-> metas,
             embs |-> [j \in 1..n |-> Embedding(texts[j])]]]

\* a citation list cut to five entries
NormalizeCtxCapped(ctx) ==
    [j \in 1..Min(5, Len(ctx)) |->
        [chunk |-> ctx[j].text, meta |-> [metadata |-> ctx[j].metadata]]]

\* _normalize_ctx(ctx) on rag_query's list of {"text", "metadata"} dicts:
\* chunk is the item's text, meta the item's other keys
_normalize_ctx(ctx) ==
    [j \in 1..Len(ctx) |->
        [chunk |-> ctx[j].text, meta |-> [metadata |-> ctx[j].metadata]]]

\* synthesize_brief(topic, sources, topic_id); topic_id = "" stands for None.
\* An exception of rag_query or of the chat call leaves the function.
synthesize_brief(topic, topic_id, fails, chat) ==
    LET tid == IF topic_id = "" THEN "default" ELSE topic_id
        r == RagQueryResult(MEM, tid, topic, SYNTH_K, fails)
        citations == _normalize_ctx(r.out)
        asked == [op |-> "synthesize_brief", topic |-> topic, topic_id |-> tid,
                  stored |-> Len(get_store(MEM, tid)[tid].texts)]
    IN  /\ MEM' = get_store(MEM, tid)
        /\ synth' =
              IF ~ r.ok
              THEN asked @@
                   [result |-> "raise", failed |-> "retrieval", brief |-> <<>>,
                    citations |-> <<>>, take |-> <<>>]
              ELSE IF chat = "raise"
              THEN asked @@
                   [result |-> "raise", failed |-> "chat", brief |-> <<>>,
                    citations |-> <<>>, take |-> r.take]
              ELSE asked @@
                   [result |-> "return", failed |-> "none", brief |-> <<"text", chat>>,
                    citations |-> citations, take |-> r.take]

SynthInit ==
    /\ MEM \in { SynthStore(n) : n \in 0..MaxStored }
    /\ written = {}
    /\ call = NoCall

SynthesizeBrief ==
    /\ \E topic \in Texts, topic_id \in {"", "A"}, fails \in {0, retries},
          chat \in {"raise", "brief text"} :
            synthesize_brief(topic, topic_id, fails, chat)
    /\ UNCHANGED notSynth

SynthNext == SynthesizeBrief

InitSynth == SynthInit /\ FetchIdle /\ HttpIdle /\ OthersIdle /\ UtilIdle

SpecSynth == InitSynth /\ [][SynthNext]_vars

-----------------------------------------------------------------------------
(* Claims about synthesize_brief (SpecSynth)                               *)

SynthCalled == synth.op = "synthesize_brief"

\* C8: when the chat-model call, or the retrieval call before it, fails,
\* synthesize_brief does not raise: it returns a Brief whose text is an
\* error marker holding the failure reason.
C8_FailureReturnsErrorMarker ==
    (SynthCalled /\ synth.failed # "none") =>
        /\ synth.result = "return"
        /\ synth.brief = <<"error", synth.failed>>

CitationUrl(c) == c.meta.metadata.url

\* C9 as stated: the citations hold at most 5 entries, no two of the same
\* url, in retrieval score order, each url at its first occurrence in the
\* retrieved context.
C9_CitationsDedupedAndCapped ==
    (SynthCalled /\ synth.result = "return") =>
        LET c == synth.citations
            ctxUrl(j) == MEM[synth.topic_id].metas[synth.take[j][2]].url
        IN  /\ Len(c) <= 5
            /\ \A i \in 1..Len(c), j \in 1..Len(c) :
                  i # j => CitationUrl(c[i]) # CitationUrl(c[j])
            /\ \A i \in 1..Len(c), j \in 1..Len(c) :
                  i < j =>
                    (CHOOSE a \in 1..Len(synth.take) : ctxUrl(a) = CitationUrl(c[i])
                            /\ \A b \in 1..(a - 1) : ctxUrl(b) # CitationUrl(c[i]))
                  < (CHOOSE a \in 1..Len(synth.take) : ctxUrl(a) = CitationUrl(c[j])
                            /\ \A b \in 1..(a - 1) : ctxUrl(b) # CitationUrl(c[j]))

\* C9 amended: the citations are the retrieved context items themselves, one
\* entry per retrieved chunk (at most 15, the k of the retrieval), in
\* retrieval score order; entries of the same url are all kept.
C9_CitationsAreRetrievedContext ==
    (SynthCalled /\ synth.result = "return") =>
        LET c == synth.citations
            b == MEM[synth.topic_id]
        IN  /\ Len(c) = Min(SYNTH_K, synth.stored)
            /\ Len(c) = Len(synth.take)
            /\ \A j \in 1..Len(c) :
                  /\ c[j].chunk = b.texts[synth.take[j][2]]
                  /\ c[j].meta = [metadata |-> b.metas[synth.take[j][2]]]
            /\ \A i \in 1..Len(c), j \in 1..Len(c) :
                  i < j => ~ ScoreLess(synth.take[i][1], synth.take[j][1])

\* a brief came back with more than five citations, two of them of one url,
\* from a topic holding more chunks than the retrieval asks for
C9_Witness ==
    /\ SynthCalled
    /\ synth.result = "return"
    /\ synth.stored > SYNTH_K
    /\ Len(synth.citations) > 5
    /\ CitationUrl(synth.citations[1]) = CitationUrl(synth.citations[3])

-----------------------------------------------------------------------------
(* agents/researcher.py: _split                                            *)
(* A text is a sequence of characters, a letter or a blank.                *)

MaxLen == 4         \* longest text given to _split
MaxSize == 3        \* largest window size given to _split

Chars == {"a", " "}

SplitTexts == UNION { [1..k -> Chars] : k \in 0..MaxLen }

\* text[i:i+size]
Slice(text, i, size) == SubSeq(text, i + 1, Min(i + size, Len(text)))

\* a window start that moves on by the whole window
SplitStepNoOverlap(size, overlap) == size

\* line 10: i += size - overlap
SplitStep(size, overlap) == size - overlap

\* s.strip()
strip(s) ==
    LET solid == { j \in 1..Len(s) : s[j] # " " }
    IN  IF solid = {} THEN <<>>
        ELSE SubSeq(s, CHOOSE j \in solid : \A h \in solid : j <= h,
                       CHOOSE j \in solid : \A h \in solid : j >= h)

\* line 11: [s.strip() for s in out if s.strip()]
StripAll(out) ==
    LET kept == SelectSeq(out, LAMBDA w : strip(w) # <<>>)
    IN  [j \in 1..Len(kept) |-> strip(kept[j])]

\* _split(text, size, overlap) is called with 0 <= overlap < size
SplitInit ==
    \E text \in SplitTexts, size \in 1..MaxSize :
        \E overlap \in 0..(size - 1) :
            split = [pc |-> "loop", text |-> text, size |-> size, overlap |-> overlap,
                     i |-> 0, out |-> <<>>, starts |-> <<>>, result |-> <<>>]

\* lines 8-10: one turn of the while loop; starts is the history of i
SplitLoop ==
    /\ split.pc = "loop"
    /\ split.i < Len(split.text)
    /\ split' = [split EXCEPT
                    !.out = Append(@, Slice(split.text, split.i, split.size)),
                    !.starts = Append(@, split.i),
                    !.i = @ + SplitStep(split.size, split.overlap)]
    /\ UNCHANGED notSplit

\* lines 8, 11: the loop ends and the stripped, non-blank windows are returned
SplitReturn ==
    /\ split.pc = "loop"
    /\ ~ (split.i < Len(split.text))
    /\ split' = [split EXCEPT !.pc = "done", !.result = StripAll(split.out)]
    /\ UNCHANGED notSplit

SplitNext == SplitLoop \/ SplitReturn

InitSplit == StoreInit /\ FetchIdle /\ HttpIdle /\ OthersIdle /\ PlanIdle /\ SplitInit

SpecSplit == InitSplit /\ [][SplitNext]_vars /\ WF_vars(SplitNext)

-----------------------------------------------------------------------------
(* Claims about _split (SpecSplit)                                         *)

SplitDone == split.pc = "done"

\* position p of the text (0-based) lies in window j
InWindow(p, j) == split.starts[j] <= p /\ p < split.starts[j] + Len(split.out[j])

SplitWindowsCover ==
    /\ \A j \in 1..Len(split.starts) :
          split.starts[j] = (j - 1) * (split.size - split.overlap)
    /\ \A j \in 1..Len(split.result) : Len(split.result[j]) <= split.size
    /\ \A p \in 0..(Len(split.text) - 1) : \E j \in 1..Len(split.out) : InWindow(p, j)

\* C13: for 0 <= o < w and every text, _split terminates, window starts
\* advance by w - o, every returned chunk is at most w long, and every
\* character position of the text lies inside at least one window.
C13_SplitCoversText == <>SplitDone /\ [](SplitDone => SplitWindowsCover)

\* a text longer than the window was split with an overlap into three or more
\* windows, one of them shortened by strip
C13_Witness ==
    /\ SplitDone
    /\ split.overlap > 0
    /\ Len(split.text) > split.size
    /\ Len(split.out) >= 3
    /\ \E j \in 1..Len(split.out) :
          strip(split.out[j]) # <<>> /\ strip(split.out[j]) # split.out[j]

-----------------------------------------------------------------------------
(* agents/planner.py                                                       *)
(* A topic is a sequence of characters: a capital, its small letter or a   *)
(* blank.  A query is the topic's characters followed by the template's    *)
(* text, kept as one element.                                              *)

MaxTopicLen == 2    \* longest topic given to plan_queries
MaxPlanCalls == 2   \* plan_queries calls in one behaviour

PLAN_CAP == 5

TopicChars == {"A", "a", " "}

PlanTopics == UNION { [1..k -> TopicChars] : k \in 0..MaxTopicLen }

TemplateTexts == << " definition and overview", " applications and use cases",
                    " challenges or limitations", " evaluation metrics or comparisons" >>

\* a template list of two entries
BaseTwoTemplates(topic) == [j \in 1..2 |-> Append(topic, TemplateTexts[j])]

\* lines 3-8: the four f-strings, in order
Base(topic) == [j \in 1..Len(TemplateTexts) |-> Append(topic, TemplateTexts[j])]

\* q.lower(); the template texts are lower case already
lower(q) == [j \in 1..Len(q) |-> IF q[j] = "A" THEN "a" ELSE q[j]]

\* lines 10-13: keep the first of the entries that are equal in lower case
RECURSIVE DedupeLower(_, _, _)
DedupeLower(base, seen, out) ==
    IF base = <<>> THEN out
    ELSE IF lower(Head(base)) \in seen
         THEN DedupeLower(Tail(base), seen, out)
         ELSE DedupeLower(Tail(base), seen \cup {lower(Head(base))},
                          Append(out, Head(base)))

\* plan_queries(topic)
plan_queries(topic) ==
    SlicePrefix(DedupeLower(Base(strip(topic)), {}, <<>>), PLAN_CAP)

PlanQueries ==
    /\ Len(plan) < MaxPlanCalls
    /\ \E topic \in PlanTopics :
          plan' = Append(plan, [topic |-> topic, result |-> plan_queries(topic)])
    /\ UNCHANGED notPlan

PlanNext == PlanQueries

InitPlan == StoreInit /\ FetchIdle /\ HttpIdle /\ OthersIdle /\ UtilIdle

SpecPlan == InitPlan /\ [][PlanNext]_vars

-----------------------------------------------------------------------------
(* Claims about plan_queries (SpecPlan)                                    *)

\* out holds entries of the template list of the trimmed topic, in its order
InTemplateOrder(topic, out) ==
    \E f \in [1..Len(out) -> 1..Len(TemplateTexts)] :
        /\ \A j \in 1..Len(out) : out[j] = Append(strip(topic), TemplateTexts[f[j]])
        /\ \A j \in 1..(Len(out) - 1) : f[j] < f[j + 1]

\* C14: for every topic, the empty one and those differing in surrounding
\* blanks or letter case included, plan_queries returns 3 to 5 entries,
\* pairwise distinct in lower case, in template order; and two calls with the
\* same topic return the same list.
C14_PlanQueries ==
    /\ \A c \in 1..Len(plan) :
          LET out == plan[c].result
          IN  /\ Len(out) >= 3 /\ Len(out) <= 5
              /\ \A j \in 1..Len(out), h \in 1..Len(out) :
                    j # h => lower(out[j]) # lower(out[h])
              /\ InTemplateOrder(plan[c].topic, out)
    /\ \A c \in 1..Len(plan), e \in 1..Len(plan) :
          plan[c].topic = plan[e].topic => plan[c].result = plan[e].result

\* the same padded, capitalised topic was planned twice
C14_Witness ==
    /\ Len(plan) = 2
    /\ plan[1].topic = <<" ", "A">>
    /\ plan[2].topic = plan[1].topic
    /\ Len(plan[1].result) = 4

-----------------------------------------------------------------------------
(* app_gradio.py                                                           *)

\* topics typed into the form: empty, blank, and two real topics
RunTopics == {"", " ", "T", " T "}

\* topic.strip()
Strip(topic) ==
    CASE topic = "" -> ""
      [] topic = " " -> ""
      [] topic = "T" -> "T"
      [] topic = " T " -> "T"

\* what reading each page gives during one research_from_web call
Webs == [Titles -> {"text", "empty", "raise"}]

\* the pages of one sub-query that become Sources: those of its search
\* result that read with text; a failed search gives none
SweepFound(w, per_query) ==
    { SelectSeq(t, LAMBDA x : w[x] = "text") : t \in TitleLists(per_query) }

\* the sub-query sweep over the entries plan_queries returned
RECURSIVE SweepSources(_, _, _)
SweepSources(w, per_query, n) ==
    IF n = 0 THEN { <<>> }
    ELSE { a \o b : a \in SweepFound(w, per_query),
                    b \in SweepSources(w, per_query, n - 1) }

\* the fallback loop over the titles t: a read that raises ends it, and so
\* does a store write that raises, after its Source was appended
RECURSIVE FallbackWalk(_, _)
FallbackWalk(w, t) ==
    IF t = <<>> THEN { <<>> }
    ELSE CASE w[Head(t)] = "raise" -> { <<>> }
           [] w[Head(t)] = "empty" -> FallbackWalk(w, Tail(t))
           [] w[Head(t)] = "text" ->
                { <<Head(t)>> } \cup
                    { <<Head(t)>> \o r : r \in
                        IF "ok" \in IngestWriteOutcomes
                        THEN FallbackWalk(w, Tail(t)) ELSE {} }

\* the lists research_from_web(subqs, per_query, topic, topic) can return to
\* run_agent (it never raises): the Sources of the sweep, in order, or those
\* of the fallback when the sweep accepted none
FetchedSources(per_query) ==
    UNION { LET sweep == SweepSources(w, per_query, Len(TemplateTexts))
                fallback == UNION { FallbackWalk(w, t) :
                                       t \in TitleLists(Max(2, per_query)) }
            IN  { UrlsOf(t) : t \in (sweep \ { <<>> }) \cup fallback \cup { <<>> } }
            : w \in Webs }

\* what synthesize_brief gives run_agent: an exception, or the tuple
\* (brief, citations) of its line 55, here with a brief validate_brief would
\* pass (300 words) or fail (100 words)
SynthOutcomes == {"raise", "tuple, 300 words", "tuple, 100 words"}

Stage(name, result) == [stage |-> name, result |-> result]

\* line 13-14: a blank topic returns the "Please enter a topic." message
RunCall ==
    /\ runpc = "idle"
    /\ \E topic \in RunTopics, per_query \in 1..MaxPerQuery :
          /\ runargs' = [topic |-> topic, per_query |-> per_query]
          /\ runpc' = IF Strip(topic) = "" THEN "returned" ELSE "plan"
    /\ runlog' = <<>>
    /\ UNCHANGED <<MEM, notRun>>

\* line 17: subqs = plan_queries(topic)
RunPlan ==
    /\ runpc = "plan"
    /\ runlog' = Append(runlog, Stage("plan", <<Strip(runargs.topic)>>))
    /\ runpc' = "research"
    /\ UNCHANGED <<runargs, MEM, notRun>>

\* line 20: sources = research_from_web(subqs, per_query, topic, topic)
RunResearch ==
    /\ runpc = "research"
    /\ \E found \in FetchedSources(runargs.per_query) :
          runlog' = Append(runlog, Stage("fetch", found))
    /\ runpc' = "synthesize"
    /\ UNCHANGED <<runargs, MEM, notRun>>

\* line 23: brief = synthesize_brief(topic, sources, topic_id=topic); its
\* rag_query begins with get_store(topic), which creates the topic's bucket;
\* its exception leaves run_agent
RunSynthesize ==
    /\ runpc = "synthesize"
    /\ MEM' = get_store(MEM, runargs.topic)
    /\ \E o \in SynthOutcomes :
          /\ runlog' = Append(runlog, Stage("synthesize", <<o>>))
          /\ runpc' = IF o = "raise" THEN "raised" ELSE "subscript"
    /\ UNCHANGED <<runargs, notRun>>

\* line 24: summary_md = brief["brief"], a str subscript of the tuple
\* synthesize_brief returned: TypeError leaves run_agent.  Lines 25-56
\* (validate_brief, make_quiz, rendering) are not reached; they hold no call
\* of research_from_web or synthesize_brief.
RunSubscript ==
    /\ runpc = "subscript"
    /\ runpc' = "raised"
    /\ UNCHANGED <<runargs, runlog, MEM, notRun>>

RunNext == RunCall \/ RunPlan \/ RunResearch \/ RunSynthesize \/ RunSubscript

InitRun == StoreInit /\ FetchIdle /\ HttpIdle /\ OthersIdle /\ UtilIdle

SpecRun == InitRun /\ [][RunNext]_vars

-----------------------------------------------------------------------------
(* Claims about run_agent (SpecRun)                                        *)

\* a run on a real topic has ended, and its synthesizer had returned a brief
RunEnded ==
    /\ runpc \in {"returned", "raised"}
    /\ Len(runlog) >= 3
    /\ runlog[3].result # <<"raise">>

StagesRun == [j \in 1..Len(runlog) |-> runlog[j].stage]

\* C7: in a pipeline run the Fetcher and the Synthesizer run again exactly
\* once when validate_brief reports passed = false, and not again when it
\* reports passed = true; the quiz is generated after the last synthesis.
C7_OneRetryOnValidationFailure ==
    RunEnded =>
        \/ /\ StagesRun = <<"plan", "fetch", "synthesize", "validate", "quiz">>
           /\ runlog[4].result = <<"passed">>
        \/ /\ StagesRun \in
                 { <<"plan", "fetch", "synthesize", "validate",
                     "fetch", "synthesize", "quiz">>,
                   <<"plan", "fetch", "synthesize", "validate",
                     "fetch", "synthesize", "validate", "quiz">> }
           /\ runlog[4].result = <<"failed">>

-----------------------------------------------------------------------------
(* agents/quiz.py                                                          *)
(* A string is a sequence of one-character strings, a sentence a sequence  *)
(* of words, a brief (already through _clean) a sequence of sentences.     *)
(* Briefs are lower case, so s.lower() and re.IGNORECASE change nothing.   *)

\* the words of the modelled briefs
Word ==
    [ the |-> <<"t", "h", "e">>,
      and |-> <<"a", "n", "d">>,
      for |-> <<"f", "o", "r">>,
      with |-> <<"w", "i", "t", "h">>,
      from |-> <<"f", "r", "o", "m">>,
      use |-> <<"u", "s", "e">>,
      data |-> <<"d", "a", "t", "a">>,
      models |-> <<"m", "o", "d", "e", "l", "s">>,
      learn |-> <<"l", "e", "a", "r", "n">>,
      sets |-> <<"s", "e", "t", "s">>,
      agents |-> <<"a", "g", "e", "n", "t", "s">>,
      tools |-> <<"t", "o", "o", "l", "s">>,
      health |-> <<"h", "e", "a", "l", "t", "h">>,
      risk |-> <<"r", "i", "s", "k">> ]

\* the words of STOP that the modelled briefs use
STOP == {Word.the, Word.and, Word.for, Word.with, Word.from}

BLANK == "____"

TOPK == 60

QUIZ_N == 5

S_data == << Word.data, Word.models, Word.learn, Word.from, Word.data, Word.sets >>
S_stemA == << Word.data, Word.with, Word.the, Word.use, Word.for, Word.and >>
S_stemB == << Word.sets, Word.with, Word.the, Word.use, Word.for, Word.and >>

BriefEmpty == << >>
BriefOne == << S_data >>
BriefTerms == << <<Word.data, Word.models, Word.learn>>, <<Word.sets, Word.agents, Word.tools>>,
                 <<Word.health, Word.risk>> >>
\* two sentences that differ in their keyword alone, and a short third one
BriefSameStem == << S_stemA, S_stemB, <<Word.risk>> >>
\* one sentence with too few keywords for three distractors
BriefVariants == << S_stemA >>

\* a brief of ten six-word sentences and twenty distinct keywords
Term(j) == <<"t", "e", "r", "m">> \o
           <<<<"a", "b", "c", "d", "e", "f", "g", "h", "i", "j", "k", "l", "m", "n",
               "o", "p", "q", "r", "s", "t">>[j]>>
BriefBig == [i \in 1..10 |-> <<Term(2 * i - 1), Word.and, Word.the, Term(2 * i), Word.for, Word.with>>]

Briefs == {BriefEmpty, BriefOne, BriefTerms, BriefSameStem, BriefVariants, BriefBig}

RECURSIVE Flatten(_)
Flatten(ss) == IF ss = <<>> THEN <<>> ELSE Head(ss) \o Flatten(Tail(ss))

\* random.shuffle(list): every order the list can be left in
Shuffle(s) ==
    LET n == Len(s)
    IN  { [j \in 1..n |-> s[f[j]]] :
            f \in { g \in [1..n -> 1..n] :
                      \A a \in 1..n, b \in 1..n : a # b => g[a] # g[b] } }

\* _sentences(text): the sentences of at least 6 words
_sentences(brief) == SelectSeq(brief, LAMBDA p : Len(p) >= 6)

\* _top_keywords(text, k=60): words of 3 letters or more outside STOP, most
\* frequent first, equal counts in order of first appearance
_top_keywords(brief) ==
    LET all == SelectSeq(Flatten(brief), LAMBDA x : Len(x) >= 3 /\ x \notin STOP)
        Count(x) == Cardinality({j \in 1..Len(all) : all[j] = x})
        First(x) == CHOOSE j \in 1..Len(all) :
                        all[j] = x /\ \A h \in 1..(j - 1) : all[h] # x
        firsts == { j \in 1..Len(all) : First(all[j]) = j }
        Before(i, j) == Count(all[i]) > Count(all[j])
                           \/ (Count(all[i]) = Count(all[j]) /\ i < j)
        Rank(j) == 1 + Cardinality({i \in firsts : Before(i, j)})
        ranked == [r \in 1..Cardinality(firsts) |->
                      all[CHOOSE j \in firsts : Rank(j) = r]]
    IN  SubSeq(ranked, 1, Min(TOPK, Len(ranked)))

\* k in word, as a substring
IsSub(k, word) ==
    \E a \in 1..(Len(word) - Len(k) + 1) : SubSeq(word, a, a + Len(k) - 1) = k

\* k in s_low
InSentence(k, s) == \E j \in 1..Len(s) : IsSub(k, s[j])

\* re.sub(re.escape(correct), "____", s, count=1): the first occurrence, which
\* lies in the first word that holds it
Masked(s, correct) ==
    LET j == CHOOSE x \in 1..Len(s) :
                 IsSub(correct, s[x]) /\ \A y \in 1..(x - 1) : ~ IsSub(correct, s[y])
        word == s[j]
        a == CHOOSE x \in 1..Len(word) :
                 /\ SubSeq(word, x, x + Len(correct) - 1) = correct
                 /\ \A y \in 1..(x - 1) : SubSeq(word, y, y + Len(correct) - 1) # correct
    IN  [s EXCEPT ![j] = SubSeq(word, 1, a - 1) \o <<BLANK>>
                            \o SubSeq(word, a + Len(correct), Len(word))]

Abs(x) == IF x < 0 THEN -x ELSE x

Suffixes == << <<"s">>, <<"i", "n", "g">>, <<"n", "e", "s", "s">>, <<"i", "t", "y">>,
               <<"i", "s", "m">> >>

\* position of x in list s, as list.index gives it (0-based)
IndexOf(s, x) == (CHOOSE j \in 1..Len(s) : s[j] = x /\ \A h \in 1..(j - 1) : s[h] # x) - 1

Item(q, options, answer_index, explanation) ==
    [q |-> q, options |-> options, answer_index |-> answer_index,
     explanation |-> explanation, keys |-> {"q", "options", "answer_index", "explanation"}]

\* the draws of correct + random.choice(suffixes) that get appended: m
\* variants, none of them in the list already and no two alike, in any order
Variants(correct, picked, m) ==
    LET all == [j \in 1..Len(Suffixes) |-> correct \o Suffixes[j]]
        free == SelectSeq(all, LAMBDA v : \A h \in 1..Len(picked) : picked[h] # v)
    IN  { SubSeq(v, 1, m) : v \in Shuffle(free) }

\* the distractors of one cloze item: the first three keywords of similar
\* length in the shuffled pool, topped up with variants of the answer
Distractors(keys, correct) ==
    LET pool == SelectSeq(keys, LAMBDA k :
                    k # correct /\ Abs(Len(k) - Len(correct)) <= 3)
    IN  UNION { LET picked == SubSeq(sh, 1, Min(3, Len(sh)))
                IN  { picked \o v : v \in Variants(correct, picked, 3 - Len(picked)) }
                : sh \in Shuffle(pool) }

\* the items lines 79-102 can build for sentence s and answer correct
ClozeItems(s, keys, correct) ==
    { Item(Masked(s, correct), options, IndexOf(options, correct),
           <<"The blank is", correct>>) :
        options \in UNION { Shuffle(<<correct>> \o d) : d \in Distractors(keys, correct) } }

\* the loop of _cloze_from_brief over the shuffled sentences, from sentence
\* i: the lists it can end with
RECURSIVE ClozeLoop(_, _, _, _, _, _)
ClozeLoop(sents, keys, n, i, out, used) ==
    IF i > Len(sents) THEN { out }
    ELSE LET s == sents[i]
             cand == SelectSeq(keys, LAMBDA k :
                         InSentence(k, s) /\ Len(k) >= 4 /\ k \notin used)
         IN  IF cand = <<>>
             THEN ClozeLoop(sents, keys, n, i + 1, out, used)
             ELSE LET correct == cand[1]
                  IN  UNION { IF Len(out) + 1 >= n
                              THEN { Append(out, item) }
                              ELSE ClozeLoop(sents, keys, n, i + 1, Append(out, item),
                                             used \cup {correct})
                              : item \in ClozeItems(s, keys, correct) }

\* _cloze_from_brief(brief_md, n): the lists it can return
_cloze_from_brief(brief, n) ==
    UNION { ClozeLoop(sents, _top_keywords(brief), n, 1, <<>>, {}) :
               sents \in Shuffle(_sentences(brief)) }

PresenceStem == << <<"Which of the following terms is explicitly mentioned in the brief?">> >>

\* the while loop of _presence_from_brief from group g: the lists it can end
\* with
RECURSIVE PresenceLoop(_, _, _, _)
PresenceLoop(keys, needed, g, out) ==
    IF ~ (Len(out) < needed /\ 4 * g <= Len(keys)) THEN { out }
    ELSE LET correct == keys[4 * g - 3]
         IN  UNION { PresenceLoop(keys, needed, g + 1,
                        Append(out, Item(PresenceStem, options, IndexOf(options, correct),
                                         <<"appears in the brief", correct>>)))
                     : options \in Shuffle(SubSeq(keys, 4 * g - 3, 4 * g)) }

\* _presence_from_brief(brief_md, needed): disjoint groups of four keywords;
\* the lists it can return
_presence_from_brief(brief, needed) ==
    PresenceLoop(SelectSeq(_top_keywords(brief), LAMBDA k : Len(k) >= 4), needed, 1, <<>>)

\* the objects a chat model may answer with; `keys` are the keys of the dict
LlmItem(j, answer_index, explanation) ==
    Item(<< <<"question", ToString(j)>> >>,
         << <<"a", ToString(j)>>, <<"b", ToString(j)>>, <<"c", ToString(j)>>,
            <<"d", ToString(j)>> >>,
         answer_index, <<explanation>>)

ThreeOptions == [LlmItem(8, 0, "e") EXCEPT !.options = << <<"a">>, <<"b">>, <<"c">> >>]
NoAnswerKey == [LlmItem(9, 0, "e") EXCEPT !.keys = {"q", "options", "explanation"}]

\* _llm_quiz outcomes: no API key, an exception (API or JSON), or a parsed array
LlmResponses ==
    { [kind |-> "absent", data |-> <<>>],
      [kind |-> "exception", data |-> <<>>],
      [kind |-> "data", data |-> <<>>],
      [kind |-> "data", data |-> <<LlmItem(1, 0, "e")>>],
      [kind |-> "data", data |-> <<ThreeOptions, NoAnswerKey, LlmItem(1, 2, "e")>>],
      [kind |-> "data", data |-> <<LlmItem(1, 0, "e"), LlmItem(1, 0, "other words")>>],
      [kind |-> "data", data |-> <<LlmItem(1, 7, "e")>>],
      [kind |-> "data", data |-> [j \in 1..5 |-> LlmItem(1, 3, "e")]],
      [kind |-> "data", data |-> [j \in 1..5 |-> LlmItem(j, j - 1, "e")]] }

\* _llm_quiz(brief_md, topic, n)
_llm_quiz(llm, n) ==
    IF llm.kind # "data" THEN <<>>
    ELSE LET good == SelectSeq(llm.data, LAMBDA it :
                        {"q", "options", "answer_index"} \subseteq it.keys
                            /\ Len(it.options) = 4)
         IN  SlicePrefix(good, n)

\* _json_unique(items): first occurrences under json.dumps(it, sort_keys=True);
\* the kept items are wrapped one per tuple and unwrapped by the caller
_json_unique(items) ==
    SelectSeq([j \in 1..Len(items) |->
                  IF \E h \in 1..(j - 1) : items[h] = items[j]
                  THEN <<>> ELSE <<items[j]>>],
              LAMBDA x : x # <<>>)

\* q["q"].replace("____", f"____ ({idx+1})"), idx + 1 = number
ReplaceBlank(stem, number) ==
    [j \in 1..Len(stem) |->
        [a \in 1..Len(stem[j]) |->
            IF stem[j][a] = BLANK
            THEN BLANK \o " (" \o ToString(number) \o ")"
            ELSE stem[j][a]]]

\* line 138: _json_unique(qs)[:n]
CapUnique(qs, n) ==
    LET uniq == _json_unique(qs)
    IN  SlicePrefix([j \in 1..Len(uniq) |-> uniq[j][1]], n)

\* make_quiz, steps 1-3: the tiers, then _json_unique(qs)[:n]; the lists qs
\* can hold after line 138
Capped(brief, n, llm) ==
    LET qs1 == _llm_quiz(llm, n)
        after2 == IF Len(qs1) < n
                  THEN { qs1 \o c : c \in _cloze_from_brief(brief, n - Len(qs1)) }
                  ELSE { qs1 }
        after3 == UNION { IF Len(qs2) < n
                          THEN { qs2 \o p : p \in _presence_from_brief(brief, n - Len(qs2)) }
                          ELSE { qs2 }
                          : qs2 \in after2 }
    IN  { CapUnique(qs3, n) : qs3 \in after3 }

\* the stems of a quiz, {q["q"] for q in qs}
Stems(qs) == {qs[j].q : j \in 1..Len(qs)}

\* make_quiz, step 4: if all stems are identical, rewrite each stem
FinalGuard(qs) ==
    IF Cardinality(Stems(qs)) = 1
    THEN [j \in 1..Len(qs) |-> [qs[j] EXCEPT !.q = ReplaceBlank(qs[j].q, j)]]
    ELSE qs

\* make_quiz(brief_md, topic, n): the lists it can return
make_quiz(brief, n, llm) == { FinalGuard(qs) : qs \in Capped(brief, n, llm) }

NValues == {0, 1, 2, QUIZ_N}

\* the ten-sentence brief comes with chat answers that fill the quiz
QuizInit ==
    \E brief \in Briefs, n \in NValues, llm \in LlmResponses :
        /\ brief = BriefBig => Len(_llm_quiz(llm, n)) >= n
        /\ quiz = [op |-> "called", brief |-> brief, n |-> n, llm |-> llm,
                   capped |-> <<>>, result |-> <<>>]

\* capped is qs after line 138, result the list returned
MakeQuiz ==
    /\ quiz.op = "called"
    /\ \E qs \in Capped(quiz.brief, quiz.n, quiz.llm) :
          quiz' = [quiz EXCEPT !.op = "returned", !.capped = qs,
                                !.result = FinalGuard(qs)]
    /\ UNCHANGED notQuiz

QuizNext == MakeQuiz

InitQuiz ==
    /\ StoreInit /\ FetchIdle /\ HttpIdle
    /\ synth = [op |-> "none"]
    /\ runpc = "idle"
    /\ runargs = [topic |-> "", per_query |-> 1]
    /\ runlog = <<>>
    /\ UtilIdle
    /\ QuizInit

SpecQuiz == InitQuiz /\ [][QuizNext]_vars

-----------------------------------------------------------------------------
(* Claims about make_quiz (SpecQuiz)                                       *)

QuizReturned == quiz.op = "returned"

\* a brief of at least 10 sentences and 20 distinct keywords
NonTrivial(brief) ==
    /\ Len(brief) >= 10
    /\ Len(_top_keywords(brief)) >= 20

\* C10: make_quiz returns at most n items, each with exactly 4 options and an
\* answer index in 0..3, no two with the same (stem, options) pair, whatever
\* the model tier gave; and exactly 5 items for n = 5 and a brief of at least
\* 10 sentences and 20 distinct keywords.
C10_QuizValid ==
    QuizReturned =>
        LET r == quiz.result
        IN  /\ Len(r) <= quiz.n
            /\ \A j \in 1..Len(r) :
                  Len(r[j].options) = 4 /\ r[j].answer_index \in 0..3
            /\ \A j \in 1..Len(r), h \in 1..Len(r) :
                  j # h => ~ (r[j].q = r[h].q /\ r[j].options = r[h].options)
            /\ (quiz.n = 5 /\ NonTrivial(quiz.brief)) => Len(r) = 5

\* the quiz of the last call before the final guard ran
BeforeGuard == quiz.capped

\* C11: when every item of the deduplicated, capped quiz has the same stem
\* (cloze or presence items alike), the returned stems are pairwise different;
\* when the stems are not all identical, no stem is changed.
C11_FinalGuardSeparatesStems ==
    QuizReturned =>
        LET r == quiz.result
        IN  IF Cardinality(Stems(BeforeGuard)) = 1
            THEN \A j \in 1..Len(r), h \in 1..Len(r) : j # h => r[j].q # r[h].q
            ELSE r = BeforeGuard

====
